---- MODULE Spec2Model ----
(***************************************************************************)
(* A model of src/main.py: the module-level statements executed when the   *)
(* script is loaded, the cookie collector get_cookies and the driver       *)
(* bootstrap setup_driver.                                                 *)
(*                                                                         *)
(* Python strings the code computes on (environment variable names and     *)
(* values, cookie names) are sequences of one-character strings, so that   *)
(* str.lower() and truthiness are computed, not assumed.  Strings the code *)
(* only passes along (URLs, flags, domains, package names) are TLA+        *)
(* strings.                                                                *)
(***************************************************************************)
EXTENDS Naturals, Sequences, FiniteSets, TLC

VARIABLES
    pc,         \* position of the module-level execution of main.py
    installed,  \* the top-level packages the interpreter can import
    environ,    \* os.environ: a function from the set names to their values
    globals,    \* the module namespace of main.py
    calls,      \* calls the user of the module has made so far
    results,    \* what get_cookies returned to the user of the module, in order
    sd_pc,      \* position inside the running setup_driver call
    options,    \* setup_driver's local `options`: the arguments added so far
    driver,     \* setup_driver's local `driver`: a browser id, 0 when unbound
    cookies,    \* the list setup_driver's for loop iterates over
    it,         \* how many elements of `cookies` the for loop has consumed
    browsers,   \* the browser processes launched so far, by id
    held,       \* the browser ids returned to the user of the module
    trace       \* the calls made on the browser library and the collector

vars == <<pc, installed, environ, globals, calls, results, sd_pc, options,
          driver, cookies, it, browsers, held, trace>>

-----------------------------------------------------------------------------
(* Bounds *)

\* how many times the user of the module calls one of its two functions
MaxCalls == 2

-----------------------------------------------------------------------------
(* Python values *)

\* None, as a value no Python string equals (strings hold one-character items)
None == <<"None">>

\* a test that takes the empty string for a value: `if val is not None`
Truthy_NotNone(val) == val # None

\* bool(val) for a value that is None or a string
Truthy(val) == val # None /\ Len(val) > 0

UpperLetters ==
    <<"A","B","C","D","E","F","G","H","I","J","K","L","M",
      "N","O","P","Q","R","S","T","U","V","W","X","Y","Z">>

LowerLetters ==
    <<"a","b","c","d","e","f","g","h","i","j","k","l","m",
      "n","o","p","q","r","s","t","u","v","w","x","y","z">>

LowerChar(c) ==
    IF \E i \in 1..Len(UpperLetters) : UpperLetters[i] = c
    THEN LowerLetters[CHOOSE i \in 1..Len(UpperLetters) : UpperLetters[i] = c]
    ELSE c

\* str.lower()
lower(s) == [i \in 1..Len(s) |-> LowerChar(s[i])]

\* a lookup that ignores the case of the names, as on a platform whose
\* environment is case-insensitive
DictGet_IgnoreCase(d, key, default) ==
    IF \E n \in DOMAIN d : lower(n) = lower(key)
    THEN d[CHOOSE n \in DOMAIN d : lower(n) = lower(key)]
    ELSE default

\* dict.get(key) and dict.get(key, default)
DictGet(d, key, default) == IF key \in DOMAIN d THEN d[key] ELSE default

-----------------------------------------------------------------------------
(* The literals of main.py *)

CF_CLEARANCE == <<"C","F","_","C","L","E","A","R","A","N","C","E">>
CSRF_TOKEN == <<"C","S","R","F","_","T","O","K","E","N">>
INGRESSCOOKIE == <<"I","N","G","R","E","S","S","C","O","O","K","I","E">>
IP_CHECK == <<"I","P","_","C","H","E","C","K">>
LEETCODE_SESSION ==
    <<"L","E","E","T","C","O","D","E","_","S","E","S","S","I","O","N">>
MESSAGES == <<"M","E","S","S","A","G","E","S">>
OUTPUT_DIR_NAME == <<"O","U","T","P","U","T","_","D","I","R">>
OUTPUT_DIR_DEFAULT ==
    <<"l","e","e","t","c","o","d","e","-","c","a","p","i","t","a","l","o","n","e">>

COMPANY_URL ==
    "https://leetcode.com/company/capital-one/?favoriteSlug=capital-one-six-months"

LANDING_URL == "https://leetcode.com/"

COOKIE_KEYS ==
    <<CF_CLEARANCE, CSRF_TOKEN, INGRESSCOOKIE, IP_CHECK, LEETCODE_SESSION, MESSAGES>>

DOMAINS ==
    (CF_CLEARANCE :> ".leetcode.com") @@
    (CSRF_TOKEN :> "leetcode.com") @@
    (INGRESSCOOKIE :> "leetcode.com") @@
    (IP_CHECK :> "leetcode.com") @@
    (LEETCODE_SESSION :> ".leetcode.com") @@
    (MESSAGES :> ".leetcode.com")

\* the arguments setup_driver adds to the options, in order
CHROME_ARGUMENTS == <<"--headless=new", "--no-sandbox", "--disable-dev-shm-usage">>

\* the import statements of lines 1-5: the package each names and the name it binds
IMPORTS ==
    <<[package |-> "os", binds |-> "os"],
      [package |-> "time", binds |-> "time"],
      [package |-> "selenuim", binds |-> "webdriver"],
      [package |-> "selenium", binds |-> "By"],
      [package |-> "seleniujm", binds |-> "Service"]>>

-----------------------------------------------------------------------------
(* The surroundings of the program *)

\* the standard library is always importable
StdLib == {"os", "time"}

\* the browser-automation library, and the other package names main.py imports
SELENIUM == "selenium"
ThirdParty == {IMPORTS[i].package : i \in 1..Len(IMPORTS)} \ StdLib

\* a variable that is set, but is none of the recognized keys: its name is
\* the lowercase form of one
csrf_token_name == <<"c","s","r","f","_","t","o","k","e","n">>

EnvNames ==
    {COOKIE_KEYS[i] : i \in 1..Len(COOKIE_KEYS)} \cup {OUTPUT_DIR_NAME, csrf_token_name}

UnknownNames == {OUTPUT_DIR_NAME, csrf_token_name}

\* the values a variable may be set to: the empty string and a mixed-case one
EnvValues == {<<>>, <<"a","B","3">>}

\* every environment over EnvNames: each name unset, or set to one of EnvValues
\* (a variable that is no recognized key is unset or non-empty)
Environments ==
    UNION { {f \in [S -> EnvValues] : \A n \in S \cap UnknownNames : f[n] # <<>>} :
              S \in SUBSET EnvNames }

-----------------------------------------------------------------------------
(* get_cookies, lines 23-30 *)

\* a record that keeps the key as its name, without key.lower()
CookieRecord_KeyAsName(key, val, domains) ==
    [name |-> key, value |-> val, domain |-> domains[key]]

\* the record line 28 appends for key
CookieRecord(key, val, domains) ==
    [name |-> lower(key), value |-> val, domain |-> domains[key]]

\* a loop that puts each new record in front of the list: cookies.insert(0, ...)
RECURSIVE get_cookies_loop_Insert0(_, _, _, _, _)
get_cookies_loop_Insert0(env, keys, domains, i, acc) ==
    IF i > Len(keys) THEN acc
    ELSE LET key == keys[i]
             val == DictGet(env, key, None)
         IN  get_cookies_loop_Insert0(env, keys, domains, i + 1,
                 IF val # None /\ Len(val) > 0
                 THEN <<[name |-> lower(key), value |-> val, domain |-> domains[key]]>> \o acc
                 ELSE acc)

\* the for loop of lines 25-28 from position i on, cookies being the list so far
RECURSIVE get_cookies_loop(_, _, _, _, _)
get_cookies_loop(env, keys, domains, i, acc) ==
    IF i > Len(keys) THEN acc
    ELSE LET key == keys[i]
             val == DictGet(env, key, None)
         IN  get_cookies_loop(env, keys, domains, i + 1,
                 IF Truthy(val) THEN Append(acc, CookieRecord(key, val, domains))
                 ELSE acc)

get_cookies(env, g) ==
    get_cookies_loop(env, g["COOKIE_KEYS"], g["DOMAINS"], 1, <<>>)

-----------------------------------------------------------------------------
(* Loading main.py, lines 1-32 *)

LoadOrder ==
    <<"import_1", "import_2", "import_3", "import_4", "import_5",
      "COMPANY_URL", "OUTPUT_DIR", "COOKIE_KEYS", "DOMAINS",
      "def get_cookies", "def setup_driver", "loaded">>

ImportPc == [i \in 1..Len(IMPORTS) |-> LoadOrder[i]]

NextPc(p) == LoadOrder[(CHOOSE i \in 1..Len(LoadOrder) : LoadOrder[i] = p) + 1]

Bind(g, name, value) == (name :> value) @@ g

sdVars == <<sd_pc, options, driver, cookies, it>>
worldVars == <<browsers, held, trace>>

\* an import statement: it binds its name when the package is importable
\* and raises ModuleNotFoundError, which ends the program, when it is not
Import ==
    /\ \E i \in 1..Len(IMPORTS) :
        /\ pc = ImportPc[i]
        /\ IF IMPORTS[i].package \in installed
           THEN /\ globals' = Bind(globals, IMPORTS[i].binds, IMPORTS[i].package)
                /\ pc' = NextPc(pc)
           ELSE /\ pc' = "ModuleNotFoundError"
                /\ UNCHANGED globals
    /\ UNCHANGED <<installed, environ, calls, results, sdVars, worldVars>>

AssignCompanyUrl ==
    /\ pc = "COMPANY_URL"
    /\ globals' = Bind(globals, "COMPANY_URL", COMPANY_URL)
    /\ pc' = NextPc(pc)
    /\ UNCHANGED <<installed, environ, calls, results, sdVars, worldVars>>

AssignOutputDir ==
    /\ pc = "OUTPUT_DIR"
    /\ globals' = Bind(globals, "OUTPUT_DIR",
                       DictGet(environ, OUTPUT_DIR_NAME, OUTPUT_DIR_DEFAULT))
    /\ pc' = NextPc(pc)
    /\ UNCHANGED <<installed, environ, calls, results, sdVars, worldVars>>

AssignCookieKeys ==
    /\ pc = "COOKIE_KEYS"
    /\ globals' = Bind(globals, "COOKIE_KEYS", COOKIE_KEYS)
    /\ pc' = NextPc(pc)
    /\ UNCHANGED <<installed, environ, calls, results, sdVars, worldVars>>

AssignDomains ==
    /\ pc = "DOMAINS"
    /\ globals' = Bind(globals, "DOMAINS", DOMAINS)
    /\ pc' = NextPc(pc)
    /\ UNCHANGED <<installed, environ, calls, results, sdVars, worldVars>>

DefGetCookies ==
    /\ pc = "def get_cookies"
    /\ globals' = Bind(globals, "get_cookies", "function")
    /\ pc' = NextPc(pc)
    /\ UNCHANGED <<installed, environ, calls, results, sdVars, worldVars>>

DefSetupDriver ==
    /\ pc = "def setup_driver"
    /\ globals' = Bind(globals, "setup_driver", "function")
    /\ pc' = NextPc(pc)
    /\ UNCHANGED <<installed, environ, calls, results, sdVars, worldVars>>

-----------------------------------------------------------------------------
(* What a user of the loaded module can do: call get_cookies or setup_driver. *)
(* Nothing in main.py catches an exception, so one raised inside a call      *)
(* leaves the program: pc records it and nothing runs afterwards.            *)

Event(op, id, arg, ok) == [op |-> op, id |-> id, arg |-> arg, ok |-> ok]

CanCall(fn) ==
    /\ pc = "loaded"
    /\ fn \in DOMAIN globals
    /\ sd_pc = "idle"
    /\ calls < MaxCalls

\* a collector that consumes what it reads: os.environ.pop(key, None)
CallGetCookies_Pop ==
    /\ CanCall("get_cookies")
    /\ results' = Append(results, get_cookies(environ, globals))
    /\ environ' = [n \in DOMAIN environ \
                        {globals["COOKIE_KEYS"][i] : i \in 1..Len(globals["COOKIE_KEYS"])}
                    |-> environ[n]]
    /\ trace' = Append(trace, Event("get_cookies", 0, get_cookies(environ, globals), TRUE))
    /\ calls' = calls + 1
    /\ UNCHANGED <<pc, installed, globals, sdVars, browsers, held>>

\* get_cookies() called by the user of the module, lines 23-30
CallGetCookies ==
    /\ CanCall("get_cookies")
    /\ results' = Append(results, get_cookies(environ, globals))
    /\ trace' = Append(trace, Event("get_cookies", 0, get_cookies(environ, globals), TRUE))
    /\ calls' = calls + 1
    /\ UNCHANGED <<pc, installed, environ, globals, sdVars, browsers, held>>

\* setup_driver() called by the user of the module, line 32
CallSetupDriver ==
    /\ CanCall("setup_driver")
    /\ sd_pc' = "options"
    /\ calls' = calls + 1
    /\ UNCHANGED <<pc, installed, environ, globals, results, options, driver,
                   cookies, it, worldVars>>

\* lines 33-36: the options object and its three arguments
BuildOptions ==
    /\ sd_pc = "options"
    /\ options' = CHROME_ARGUMENTS
    /\ trace' = trace \o <<Event("ChromeOptions", 0, "", TRUE)>>
                      \o [i \in 1..Len(CHROME_ARGUMENTS) |->
                            Event("add_argument", 0, CHROME_ARGUMENTS[i], TRUE)]
    /\ sd_pc' = "start"
    /\ UNCHANGED <<pc, installed, environ, globals, calls, results, driver,
                   cookies, it, browsers, held>>

\* a freshly launched browser: on its blank page, with no cookies
NewBrowser(opts) ==
    [options |-> opts, url |-> "data:,", cookies |-> <<>>, running |-> TRUE]

\* the exception leaves setup_driver: its frame, and with it the local
\* references, is gone, and nothing of the program runs afterwards
Raise ==
    /\ pc' = "WebDriverException"
    /\ sd_pc' = "raised"
    /\ options' = <<>>
    /\ driver' = 0
    /\ cookies' = <<>>
    /\ it' = 0

\* a bootstrap without line 39: the cookies go to the blank page
StartBrowser_SkipLanding ==
    /\ sd_pc = "start"
    /\ browsers' = Append(browsers, NewBrowser(options))
    /\ driver' = Len(browsers) + 1
    /\ trace' = Append(trace, Event("Chrome", Len(browsers) + 1, options, TRUE))
    /\ sd_pc' = "collect"
    /\ UNCHANGED <<pc, installed, environ, globals, calls, results, options,
                   cookies, it, held>>

\* line 38: webdriver.Chrome(options=options) starts a browser
StartBrowser ==
    /\ sd_pc = "start"
    /\ browsers' = Append(browsers, NewBrowser(options))
    /\ driver' = Len(browsers) + 1
    /\ trace' = Append(trace, Event("Chrome", Len(browsers) + 1, options, TRUE))
    /\ sd_pc' = "get"
    /\ UNCHANGED <<pc, installed, environ, globals, calls, results, options,
                   cookies, it, held>>

\* line 38 when the browser cannot be started
StartBrowserFails ==
    /\ sd_pc = "start"
    /\ trace' = Append(trace, Event("Chrome", 0, options, FALSE))
    /\ Raise
    /\ UNCHANGED <<installed, environ, globals, calls, results, browsers, held>>

\* line 39: driver.get('https://leetcode.com/')
LoadLanding ==
    /\ sd_pc = "get"
    /\ browsers' = [browsers EXCEPT ![driver].url = LANDING_URL]
    /\ trace' = Append(trace, Event("get", driver, LANDING_URL, TRUE))
    /\ sd_pc' = "collect"
    /\ UNCHANGED <<pc, installed, environ, globals, calls, results, options,
                   driver, cookies, it, held>>

\* a bootstrap that closes the browser when the page cannot be loaded:
\* try: driver.get(...) except: driver.quit(); raise
LoadLandingFails_Quit ==
    /\ sd_pc = "get"
    /\ browsers' = [browsers EXCEPT ![driver].running = FALSE]
    /\ trace' = trace \o <<Event("get", driver, LANDING_URL, FALSE),
                            Event("quit", driver, "", TRUE)>>
    /\ Raise
    /\ UNCHANGED <<installed, environ, globals, calls, results, held>>

\* line 39 when the page cannot be loaded
LoadLandingFails ==
    /\ sd_pc = "get"
    /\ trace' = Append(trace, Event("get", driver, LANDING_URL, FALSE))
    /\ Raise
    /\ UNCHANGED <<installed, environ, globals, calls, results, browsers, held>>

\* line 41: the for statement evaluates get_cookies() once
Collect ==
    /\ sd_pc = "collect"
    /\ cookies' = get_cookies(environ, globals)
    /\ it' = 0
    /\ trace' = Append(trace, Event("get_cookies", 0, get_cookies(environ, globals), TRUE))
    /\ sd_pc' = "for"
    /\ UNCHANGED <<pc, installed, environ, globals, calls, results, options,
                   driver, browsers, held>>

\* lines 41-42: the next element of the list goes to driver.add_cookie
AddCookie ==
    /\ sd_pc = "for"
    /\ it < Len(cookies)
    /\ browsers' = [browsers EXCEPT
                      ![driver].cookies = Append(@, cookies[it + 1])]
    /\ trace' = Append(trace, Event("add_cookie", driver, cookies[it + 1], TRUE))
    /\ it' = it + 1
    /\ UNCHANGED <<pc, installed, environ, globals, calls, results, sd_pc,
                   options, driver, cookies, held>>

\* a loop that swallows the refusal and goes on with the next cookie:
\* try: driver.add_cookie(cookie) except Exception: pass
AddCookieFails_Swallowed ==
    /\ sd_pc = "for"
    /\ it < Len(cookies)
    /\ trace' = Append(trace, Event("add_cookie", driver, cookies[it + 1], FALSE))
    /\ it' = it + 1
    /\ UNCHANGED <<pc, installed, environ, globals, calls, results, sd_pc,
                   options, driver, cookies, browsers, held>>

\* line 42 when the browser refuses the cookie
AddCookieFails ==
    /\ sd_pc = "for"
    /\ it < Len(cookies)
    /\ trace' = Append(trace, Event("add_cookie", driver, cookies[it + 1], FALSE))
    /\ Raise
    /\ UNCHANGED <<installed, environ, globals, calls, results, browsers, held>>

\* a bootstrap that goes on to the company page before it returns:
\* driver.get(COMPANY_URL)
Return_OnCompanyPage ==
    /\ sd_pc = "for"
    /\ it = Len(cookies)
    /\ browsers' = [browsers EXCEPT ![driver].url = globals["COMPANY_URL"]]
    /\ held' = held \cup {driver}
    /\ trace' = trace \o <<Event("get", driver, globals["COMPANY_URL"], TRUE),
                            Event("return", driver, "", TRUE)>>
    /\ sd_pc' = "idle"
    /\ options' = <<>>
    /\ driver' = 0
    /\ cookies' = <<>>
    /\ it' = 0
    /\ UNCHANGED <<pc, installed, environ, globals, calls, results>>

\* line 44: the list is exhausted and the driver goes back to the caller
Return ==
    /\ sd_pc = "for"
    /\ it = Len(cookies)
    /\ held' = held \cup {driver}
    /\ trace' = Append(trace, Event("return", driver, "", TRUE))
    /\ sd_pc' = "idle"
    /\ options' = <<>>
    /\ driver' = 0
    /\ cookies' = <<>>
    /\ it' = 0
    /\ UNCHANGED <<pc, installed, environ, globals, calls, results, browsers>>

-----------------------------------------------------------------------------

Init ==
    /\ pc = "import_1"
    /\ installed \in {StdLib \cup P : P \in SUBSET ThirdParty}
    /\ environ \in Environments
    /\ globals = <<>>
    /\ calls = 0
    /\ results = <<>>
    /\ sd_pc = "idle"
    /\ options = <<>>
    /\ driver = 0
    /\ cookies = <<>>
    /\ it = 0
    /\ browsers = <<>>
    /\ held = {}
    /\ trace = <<>>

Next ==
    \/ Import
    \/ AssignCompanyUrl
    \/ AssignOutputDir
    \/ AssignCookieKeys
    \/ AssignDomains
    \/ DefGetCookies
    \/ DefSetupDriver
    \/ CallGetCookies
    \/ CallSetupDriver
    \/ BuildOptions
    \/ StartBrowser
    \/ StartBrowserFails
    \/ LoadLanding
    \/ LoadLandingFails
    \/ Collect
    \/ AddCookie
    \/ AddCookieFails
    \/ Return

Spec == Init /\ [][Next]_vars

-----------------------------------------------------------------------------
(* What the properties below are stated with.  None of it is used by the   *)
(* actions: the names and lists are written out, not computed by lower()   *)
(* or get_cookies.                                                         *)

cf_clearance == <<"c","f","_","c","l","e","a","r","a","n","c","e">>
csrf_token == <<"c","s","r","f","_","t","o","k","e","n">>
ingresscookie == <<"i","n","g","r","e","s","s","c","o","o","k","i","e">>
ip_check == <<"i","p","_","c","h","e","c","k">>
leetcode_session ==
    <<"l","e","e","t","c","o","d","e","_","s","e","s","s","i","o","n">>
messages == <<"m","e","s","s","a","g","e","s">>

\* the six recognized keys in declared order, and the lowercase name of each
Keys == <<CF_CLEARANCE, CSRF_TOKEN, INGRESSCOOKIE, IP_CHECK, LEETCODE_SESSION, MESSAGES>>
Names == <<cf_clearance, csrf_token, ingresscookie, ip_check, leetcode_session, messages>>
KeyIx == 1..6

\* the positions of the keys set to a non-empty value in the environment
SetKeys == {k \in KeyIx : Keys[k] \in DOMAIN environ /\ environ[Keys[k]] # <<>>}

\* every sequence get_cookies has returned and that is still in the state:
\* to the user of the module, and to the setup_driver call in progress
Returned ==
    {results[i] : i \in 1..Len(results)}
        \cup (IF sd_pc = "for" THEN {cookies} ELSE {})

\* the positions of the records of r that carry the name of key k
At(r, k) == {p \in 1..Len(r) : r[p].name = Names[k]}

\* the position of the trace at which the setup_driver call of event p began
CallStart(p) ==
    CHOOSE s \in 1..p :
        /\ trace[s].op = "ChromeOptions"
        /\ \A q \in (s + 1)..p : trace[q].op # "ChromeOptions"

IsBrowserOp(e) == e.op # "get_cookies" /\ e.op # "return"
BrowserOps(t) == SelectSeq(t, IsBrowserOp)

-----------------------------------------------------------------------------
(* get_cookies *)

\* C1: whatever the environment, get_cookies returns exactly one record for
\* each recognized key set to a non-empty value and no other record; the
\* record of a key carries the key's lowercase name, the environment's value
\* unchanged and the key's domain of the DOMAINS table.
C1_OneRecordPerSetKey ==
    \A r \in Returned :
        /\ Len(r) = Cardinality(SetKeys)
        /\ \A k \in SetKeys :
            /\ Cardinality(At(r, k)) = 1
            /\ \A p \in At(r, k) :
                /\ r[p].value = environ[Keys[k]]
                /\ r[p].domain = DOMAINS[Keys[k]]

\* get_cookies has returned three records with mixed-case values while
\* other recognized keys are unset or empty
C1_Witness ==
    /\ Len(results) > 0
    /\ Cardinality(SetKeys) = 3
    /\ Len(results[1]) = 3
    /\ results[1][1].value = <<"a","B","3">>
    /\ results[1][1].domain = ".leetcode.com"
    /\ results[1][2].domain = "leetcode.com"

\* C2: the records come in the declared order of COOKIE_KEYS: of two records
\* the one whose key is declared earlier comes first; with only
\* LEETCODE_SESSION and CSRF_TOKEN set, csrf_token comes before
\* leetcode_session.
C2_DeclaredOrder ==
    \A r \in Returned :
        /\ \A p, q \in 1..Len(r) :
              p < q => \E k, l \in KeyIx :
                          /\ k < l
                          /\ r[p].name = Names[k]
                          /\ r[q].name = Names[l]
        /\ SetKeys = {2, 5} =>
              /\ Len(r) = 2
              /\ r[1].name = csrf_token
              /\ r[2].name = leetcode_session

\* the scenario of the specification: LEETCODE_SESSION and CSRF_TOKEN set,
\* and get_cookies has returned
C2_Witness ==
    /\ Len(results) > 0
    /\ DOMAIN environ = {LEETCODE_SESSION, CSRF_TOKEN}
    /\ SetKeys = {2, 5}
    /\ Len(results[1]) = 2

\* C3: a variable that is none of the six keys never produces a record: every
\* record carries the lowercase name of a recognized key that is itself set
\* in the environment, and the record's value is that key's value.
C3_OnlyRecognizedKeys ==
    \A r \in Returned :
        \A p \in 1..Len(r) :
            \E k \in KeyIx :
                /\ r[p].name = Names[k]
                /\ Keys[k] \in DOMAIN environ
                /\ r[p].value = environ[Keys[k]]

\* get_cookies has returned records while OUTPUT_DIR and a variable named
\* csrf_token are set and CSRF_TOKEN is not
C3_Witness ==
    /\ Len(results) > 0
    /\ {OUTPUT_DIR_NAME, csrf_token_name} \subseteq DOMAIN environ
    /\ CSRF_TOKEN \notin DOMAIN environ
    /\ Len(results[1]) > 0

\* C4: a recognized key that is unset or set to the empty string contributes
\* no record; with no recognized key set to a non-empty value the result is
\* the empty sequence; and the call raises nothing: an exception that ends
\* the program after loading comes from a browser operation.
C4_UnsetOrEmptySkipped ==
    /\ \A r \in Returned :
        /\ \A k \in KeyIx :
              (Keys[k] \notin DOMAIN environ \/ environ[Keys[k]] = <<>>)
                  => At(r, k) = {}
        /\ SetKeys = {} => r = <<>>
    /\ (Len(results) > 0 \/ sd_pc = "for") =>
          \/ pc = "loaded"
          \/ /\ pc = "WebDriverException"
             /\ trace[Len(trace)].op \in {"Chrome", "get", "add_cookie"}
             /\ ~trace[Len(trace)].ok

\* get_cookies has returned a non-empty sequence while one recognized key
\* is set to the empty string and another is unset
C4_Witness ==
    /\ Len(results) > 0
    /\ \E k \in KeyIx : Keys[k] \in DOMAIN environ /\ environ[Keys[k]] = <<>>
    /\ \E k \in KeyIx : Keys[k] \notin DOMAIN environ
    /\ Len(results[1]) > 0
    /\ pc = "loaded"

-----------------------------------------------------------------------------
(* setup_driver *)

\* C5: in every run of setup_driver that returns, the operations are, in this
\* order: the options with the three arguments --headless=new, --no-sandbox
\* and --disable-dev-shm-usage, the start of the browser with these options,
\* the load of https://leetcode.com/, one call of get_cookies, one add_cookie
\* for each record get_cookies returned, in its order, and the return; and no
\* add_cookie, in any run, comes before the landing page has been loaded in
\* the same browser.
C5_BootstrapOrder ==
    /\ \A p \in 1..Len(trace) :
        trace[p].op = "return" =>
            LET s == CallStart(p)
                d == trace[p].id
                n == p - s - 7
            IN  /\ n >= 0
                /\ trace[s + 1].op = "add_argument" /\ trace[s + 1].arg = "--headless=new"
                /\ trace[s + 2].op = "add_argument" /\ trace[s + 2].arg = "--no-sandbox"
                /\ trace[s + 3].op = "add_argument"
                /\ trace[s + 3].arg = "--disable-dev-shm-usage"
                /\ trace[s + 4].op = "Chrome" /\ trace[s + 4].ok /\ trace[s + 4].id = d
                /\ trace[s + 4].arg =
                      <<"--headless=new", "--no-sandbox", "--disable-dev-shm-usage">>
                /\ browsers[d].options = trace[s + 4].arg
                /\ trace[s + 5].op = "get" /\ trace[s + 5].ok /\ trace[s + 5].id = d
                /\ trace[s + 5].arg = "https://leetcode.com/"
                /\ trace[s + 6].op = "get_cookies"
                /\ Len(trace[s + 6].arg) = n
                /\ \A j \in 1..n :
                      /\ trace[s + 6 + j].op = "add_cookie"
                      /\ trace[s + 6 + j].ok
                      /\ trace[s + 6 + j].id = d
                      /\ trace[s + 6 + j].arg = trace[s + 6].arg[j]
                /\ browsers[d].cookies = trace[s + 6].arg
    /\ \A q \in 1..Len(trace) :
        trace[q].op = "add_cookie" =>
            \E g \in 1..(q - 1) :
                /\ trace[g].op = "get" /\ trace[g].ok
                /\ trace[g].id = trace[q].id
                /\ trace[g].arg = "https://leetcode.com/"

\* setup_driver has returned a browser into which it put three cookies
C5_Witness ==
    \E d \in held :
        /\ Len(browsers[d].cookies) = 3
        /\ \E p \in 1..Len(trace) : trace[p].op = "return" /\ trace[p].id = d

\* C6: a failing step of setup_driver (the start of the browser, the load of
\* the landing page, an add_cookie) ends the call with the exception: the
\* failed operation is the last one there is, so that no later step runs,
\* the remaining cookies are not put into the browser and the step is not
\* tried again; the exception has reached the caller and the browser of the
\* failed call is not returned.
C6_FailurePropagates ==
    /\ \A p \in 1..Len(trace) :
        ~trace[p].ok =>
            /\ p = Len(trace)
            /\ pc = "WebDriverException"
            /\ sd_pc = "raised"
            /\ trace[p].id \notin held
            /\ trace[p].op = "add_cookie" =>
                  LET d == trace[p].id
                      s == CallStart(p)
                  IN  /\ Len(browsers[d].cookies) = p - s - 7
                      /\ Len(browsers[d].cookies) < Len(trace[s + 6].arg)
    /\ pc = "WebDriverException" => ~trace[Len(trace)].ok

\* the second of four add_cookie calls has failed
C6_Witness ==
    /\ pc = "WebDriverException"
    /\ trace[Len(trace)].op = "add_cookie"
    /\ ~trace[Len(trace)].ok
    /\ Len(browsers[trace[Len(trace)].id].cookies) = 1
    /\ Len(trace[CallStart(Len(trace)) + 6].arg) = 4

\* a step in which get_cookies runs: for the user of the module, or for the
\* for statement of setup_driver
CollectorStep ==
    \/ Len(results') > Len(results)
    \/ sd_pc = "collect" /\ sd_pc' = "for"

\* C7: a call of get_cookies leaves the environment, the module's COOKIE_KEYS
\* and DOMAINS and every browser as they are and makes no call on the browser
\* library; all the calls made under the one environment return equal
\* sequences.
C7_CollectorIsPure ==
    [][ /\ CollectorStep =>
            /\ environ' = environ
            /\ globals' = globals
            /\ globals'["COOKIE_KEYS"] = Keys
            /\ browsers' = browsers
            /\ held' = held
            /\ BrowserOps(trace') = BrowserOps(trace)
        /\ \A r1, r2 \in Returned' : r1 = r2
      ]_vars

\* get_cookies has been called twice by the user of the module and has
\* returned records
C7_Witness ==
    /\ Len(results) = 2
    /\ Len(results[1]) >= 2
    /\ Len(results[2]) >= 2

\* C8: the code never closes a browser it started: the trace holds no quit or
\* close, every browser started is still running, and when the landing page
\* load or an add_cookie fails the browser of that call runs on while the
\* caller has no reference to it.
C8_BrowserNeverReleased ==
    /\ \A p \in 1..Len(trace) : trace[p].op \notin {"quit", "close"}
    /\ \A d \in 1..Len(browsers) : browsers[d].running
    /\ (pc = "WebDriverException" /\ trace[Len(trace)].op \in {"get", "add_cookie"}) =>
          LET d == trace[Len(trace)].id
          IN  /\ d \in 1..Len(browsers)
              /\ browsers[d].running
              /\ d \notin held
              /\ driver = 0

\* the landing page load of a started browser has failed
C8_Witness ==
    /\ pc = "WebDriverException"
    /\ trace[Len(trace)].op = "get"
    /\ ~trace[Len(trace)].ok
    /\ Len(browsers) >= 1
    /\ browsers[trace[Len(trace)].id].running

\* the positions of the navigations of browser d
Navigations(d) == {p \in 1..Len(trace) : trace[p].op = "get" /\ trace[p].id = d}

\* C9: setup_driver navigates once, to https://leetcode.com/, and before any
\* cookie is added; nothing loads COMPANY_URL; a returned browser is on the
\* landing page.
C9_OneNavigation ==
    /\ \A p \in 1..Len(trace) :
        trace[p].op = "get" =>
            /\ trace[p].arg = "https://leetcode.com/"
            /\ trace[p].arg # COMPANY_URL
    /\ \A d \in 1..Len(browsers) :
        /\ Cardinality(Navigations(d)) <= 1
        /\ browsers[d].url # COMPANY_URL
        /\ \A q \in 1..Len(trace) :
              (trace[q].op = "add_cookie" /\ trace[q].id = d) =>
                  \E g \in Navigations(d) : g < q
    /\ \A d \in held :
        /\ Cardinality(Navigations(d)) = 1
        /\ browsers[d].url = "https://leetcode.com/"

\* setup_driver has returned a browser with cookies while the module holds
\* COMPANY_URL
C9_Witness ==
    /\ "COMPANY_URL" \in DOMAIN globals
    /\ \E d \in held : Len(browsers[d].cookies) >= 2 /\ Navigations(d) # {}

-----------------------------------------------------------------------------
(* Loading *)

\* C10: loading main.py succeeds: where the standard library and selenium
\* are what can be imported, no import raises and the load reaches the
\* definitions of get_cookies and setup_driver.
C10_ImportsResolve ==
    installed = StdLib \cup {SELENIUM} => pc # "ModuleNotFoundError"

====
